---- MODULE Spec2Model ----
(***************************************************************************)
(* CuraBridge: a Blender add-on that exports the selected mesh to an STL   *)
(* file in a scratch export directory and launches UltiMaker Cura on it.   *)
(* The repository holds two versions of the add-on: 1.1.0                  *)
(* (src/cura_bridge/__init__.py) and 1.1.1 (src/__init__.py).  They differ *)
(* in how the export directory is chosen and wiped; the operator and its   *)
(* launch chain are the same.  The model runs either version, fixed at     *)
(* Init.                                                                   *)
(***************************************************************************)
EXTENDS Integers, Sequences, FiniteSets, TLC

(* ------------------------------------------------------------------ *)
(* Bounds                                                             *)
(* ------------------------------------------------------------------ *)
\* the clock readings, in whole seconds, that datetime.now() may give
MaxClock == 1
\* how many entries of the export directories other processes hold locked
MaxLocked == 1
\* the readings datetime.now() may give within one second
TicksPerSecond == 2

(* ------------------------------------------------------------------ *)
(* Values                                                             *)
(* ------------------------------------------------------------------ *)
Versions == {"1.1.0", "1.1.1"}

DEFAULT_EXPORT_DIR == "~/Downloads/CuraBridge"
CustomDir == "/custom"
Dirs == {DEFAULT_EXPORT_DIR, CustomDir}
\* the directories in which other processes of the host create, hold and
\* release entries; the other one holds only what the add-on wrote into it
HostDirs == {DEFAULT_EXPORT_DIR}

\* prefs.export_dir as typed by the user: a sequence of characters
ExportDirPrefs == {<< >>, <<" ">>, <<"/custom", " ">>}

\* bpy.data.filepath, as path components: empty for an unsaved document
DocPaths == {<< >>, <<"proj", "/", "part", ".v2", ".blend">>}
ExtTokens == {".v2", ".blend"}

\* object names, as sequences of characters
ObjNames == {<<"a", "/">>}

Platforms == {"Linux", "Windows", "Darwin"}

\* prefs.cura_path: blank, a path that is no file, a path of an existing file
CuraPaths == {"", "/missing/cura", "/usr/bin/cura"}
\* the files of the host that os.path.isfile finds
HostFiles == {"/usr/bin/cura"}

LaunchOutcomes == {"running", "exited", "raised"}

\* the messages of the exceptions the exporter raises
ExportErrors == {"disk full", "no mesh data"}

NoName == [base |-> << >>, ts |-> -1, ext |-> ""]
SubName == [base |-> <<"s", "u", "b">>, ts |-> -1, ext |-> ""]
NoPath == [dir |-> "", name |-> NoName]
NoReport == [level |-> "", msg |-> << >>]
\* what the operator has read of the preferences and of the host so far
NoEnv == [mesh |-> "unread", cura_path |-> "unread", flatpak_id |-> "unread", spawn |-> "unread",
          platform |-> "unread", cura |-> "unread", flatpak |-> "unread"]

VARIABLES version, export_dir, fs, pc, op, trace, stlpath, launched, report,
          result, env,
          resolved    \* the calls of _make_stl_path made so far, when it is
                      \* exercised on its own: arguments and returned path

vars == <<version, export_dir, fs, pc, op, trace, stlpath, launched, report,
          result, env, resolved>>

(* ------------------------------------------------------------------ *)
(* Export directory utilities                                         *)
(* ------------------------------------------------------------------ *)
AbsentDir == [kind |-> "absent", entries |-> {}]
EmptyDir == [kind |-> "dir", entries |-> {}]
FileAtPath == [kind |-> "file", entries |-> {}]

RECURSIVE lstrip(_)
lstrip(s) == IF s # << >> /\ Head(s) = " " THEN lstrip(Tail(s)) ELSE s

RECURSIVE rstrip(_)
rstrip(s) ==
    IF s # << >> /\ s[Len(s)] = " " THEN rstrip(SubSeq(s, 1, Len(s) - 1)) ELSE s

strip(s) == rstrip(lstrip(s))

\* os.path.abspath(os.path.expanduser(p)) of a path the user typed
abspath(s) == s[1]

\* 1.1.0 has no export_dir preference: EXPORT_DIR is a module constant
chosen_dir ==
    IF version = "1.1.1" /\ strip(export_dir) # << >>
    THEN abspath(strip(export_dir))
    ELSE DEFAULT_EXPORT_DIR

\* what shutil.rmtree(path, ignore_errors=True) leaves of a directory
rmtree(d) ==
    LET left == {e \in d.entries : e.locked}
    IN IF left = {} THEN AbsentDir ELSE [kind |-> "dir", entries |-> left]

\* what the loop of os.remove over os.listdir, then os.rmdir, leaves
remove_files_rmdir(d) ==
    LET left == {e \in d.entries : e.locked \/ e.isdir}
    IN IF left = {} THEN AbsentDir ELSE [kind |-> "dir", entries |-> left]

\* a wipe that also clears the default directory, whatever path it is given
wipe_export_dir_DefaultToo(f, path) ==
    LET g == IF f[path].kind = "dir"
             THEN [f EXCEPT ![path] = IF version = "1.1.1" THEN rmtree(@)
                                      ELSE remove_files_rmdir(@)]
             ELSE f
    IN IF g[DEFAULT_EXPORT_DIR].kind = "dir"
       THEN [g EXCEPT ![DEFAULT_EXPORT_DIR] = rmtree(@)]
       ELSE g

wipe_export_dir(f, path) ==
    IF f[path].kind = "dir"
    THEN [f EXCEPT ![path] = IF version = "1.1.1" THEN rmtree(@)
                             ELSE remove_files_rmdir(@)]
    ELSE f

\* 1.1.0 calls os.listdir outside its try blocks: on a directory that cannot
\* be listed the wipe itself raises; 1.1.1's rmtree ignores every error
wipe_raises(f, path, listable) ==
    version = "1.1.0" /\ f[path].kind = "dir" /\ ~listable

\* os.makedirs(path, exist_ok=True) raises when path is a non-directory
ensure_raises(f, path) == f[path].kind = "file"

ensure_export_dir(f, path) ==
    IF f[path].kind = "absent" THEN [f EXCEPT ![path] = EmptyDir] ELSE f

\* os.path.splitext(os.path.basename(filepath))[0]
basename(p) ==
    LET seps == {i \in 1..Len(p) : p[i] = "/"}
    IN IF seps = {} THEN p
       ELSE SubSeq(p, (CHOOSE i \in seps : \A j \in seps : j <= i) + 1, Len(p))
splitext0(b) ==
    IF Len(b) > 1 /\ b[Len(b)] \in ExtTokens THEN SubSeq(b, 1, Len(b) - 1) ELSE b

\* bpy.path.clean_name: every character unsafe in a file name becomes "_"
clean_char(c) == IF c \in {"/", " ", ":"} THEN "_" ELSE c
clean_name(n) == [i \in 1..Len(n) |-> clean_char(n[i])]

\* a file name that carries the timestamp for a saved document too
stl_name_AlwaysStamped(doc, obj, now) ==
    IF doc # << >>
    THEN [base |-> splitext0(basename(doc)) \o <<"_">>, ts |-> now, ext |-> ".stl"]
    ELSE [base |-> clean_name(obj) \o <<"_">>, ts |-> now, ext |-> ".stl"]

\* the file name _make_stl_path gives, the directory being ensured before
stl_name(doc, obj, now) ==
    IF doc # << >>
    THEN [base |-> splitext0(basename(doc)), ts |-> -1, ext |-> ".stl"]
    ELSE [base |-> clean_name(obj) \o <<"_">>, ts |-> now, ext |-> ".stl"]

make_stl_path(doc, obj, now) ==
    [dir |-> chosen_dir, name |-> stl_name(doc, obj, now)]

(* ------------------------------------------------------------------ *)
(* Directory contents                                                 *)
(* ------------------------------------------------------------------ *)
IsStl(e) == ~e.isdir /\ e.name.ext = ".stl"
StlFiles(d) == {e \in d.entries : IsStl(e)}
Names(d) == {e.name : e \in d.entries}
NumLocked == Cardinality(UNION {{<<p, e>> : e \in {x \in fs[p].entries : x.locked}}
                                : p \in Dirs})

\* the exporter writing the file at path: a new entry, or the old one rewritten
write_file(f, path) ==
    IF path.name \in Names(f[path.dir]) THEN f
    ELSE [f EXCEPT ![path.dir].entries =
              @ \cup {[name |-> path.name, isdir |-> FALSE, locked |-> FALSE]}]

Event(o, w, r) == [op |-> o, what |-> w, outcome |-> r]

(* ------------------------------------------------------------------ *)
(* Init                                                               *)
(* ------------------------------------------------------------------ *)
Init ==
    /\ version \in Versions
    /\ export_dir = << >>
    /\ fs = [p \in Dirs |-> AbsentDir]
    /\ pc = "idle"
    /\ op = "none"
    /\ trace = << >>
    /\ stlpath = NoPath
    /\ launched = FALSE
    /\ report = NoReport
    /\ result = "none"
    /\ env = NoEnv
    /\ resolved = << >>

(* ------------------------------------------------------------------ *)
(* register / unregister                                              *)
(* ------------------------------------------------------------------ *)
register ==
    /\ pc = "idle"
    /\ \E listable \in BOOLEAN :
         LET wiped == wipe_export_dir(fs, chosen_dir)
         IN IF wipe_raises(fs, chosen_dir, listable)
            THEN /\ fs' = fs
                 /\ result' = "RAISED"
                 /\ trace' = <<Event("wipe", chosen_dir, "raised")>>
            ELSE IF ensure_raises(wiped, chosen_dir)
            THEN /\ fs' = wiped
                 /\ result' = "RAISED"
                 /\ trace' = <<Event("wipe", chosen_dir, "ok"),
                               Event("ensure", chosen_dir, "raised")>>
            ELSE /\ fs' = ensure_export_dir(wiped, chosen_dir)
                 /\ result' = "returned"
                 /\ trace' = <<Event("wipe", chosen_dir, "ok"),
                               Event("ensure", chosen_dir, "ok")>>
    /\ op' = "register"
    /\ pc' = "done"
    /\ UNCHANGED <<resolved, version, export_dir, stlpath, launched, report, env>>

\* an unregister that recreates the directory as register does
unregister_Recreate ==
    /\ pc = "idle"
    /\ fs' = ensure_export_dir(wipe_export_dir(fs, chosen_dir), chosen_dir)
    /\ trace' = <<Event("wipe", chosen_dir, "ok"), Event("ensure", chosen_dir, "ok")>>
    /\ result' = "returned"
    /\ op' = "unregister"
    /\ pc' = "done"
    /\ UNCHANGED <<resolved, version, export_dir, stlpath, launched, report, env>>

unregister ==
    /\ pc = "idle"
    /\ \E listable \in BOOLEAN :
         IF wipe_raises(fs, chosen_dir, listable)
         THEN /\ fs' = fs
              /\ result' = "RAISED"
              /\ trace' = <<Event("wipe", chosen_dir, "raised")>>
         ELSE /\ fs' = wipe_export_dir(fs, chosen_dir)
              /\ result' = "returned"
              /\ trace' = <<Event("wipe", chosen_dir, "ok")>>
    /\ op' = "unregister"
    /\ pc' = "done"
    /\ UNCHANGED <<resolved, version, export_dir, stlpath, launched, report, env>>

\* the handler has returned to the host
Return ==
    /\ pc = "done"
    /\ pc' = "idle"
    /\ op' = "none"
    /\ trace' = << >>
    /\ stlpath' = NoPath
    /\ launched' = FALSE
    /\ report' = NoReport
    /\ result' = "none"
    /\ env' = NoEnv
    /\ UNCHANGED <<resolved, version, export_dir, fs>>

(* ------------------------------------------------------------------ *)
(* CURA_OT_send                                                       *)
(* ------------------------------------------------------------------ *)
\* a _launch that forgets the poll: any process that was spawned counts
launch_NoPoll(outcome) == outcome # "raised"

\* a _launch whose except branch returns True
launch_ExceptTrue(outcome) == outcome # "exited"

\* _launch: Popen, sleep(1), poll; True only for a process still running
launch(outcome) == outcome = "running"

Attempt(what, outcome) ==
    /\ launched' = launch(outcome)
    /\ trace' = Append(trace, Event("launch", what, outcome))

NoAttempt == UNCHANGED <<launched, trace>>

\* _wipe_export_dir(_chosen_dir())
ExecuteWipe ==
    /\ pc = "idle"
    /\ \E listable \in BOOLEAN :
         IF wipe_raises(fs, chosen_dir, listable)
         THEN /\ fs' = fs
              /\ trace' = <<Event("wipe", chosen_dir, "raised")>>
              /\ result' = "RAISED"
              /\ pc' = "done"
         ELSE /\ fs' = wipe_export_dir(fs, chosen_dir)
              /\ trace' = <<Event("wipe", chosen_dir, "ok")>>
              /\ pc' = "select"
              /\ UNCHANGED result
    /\ op' = "execute"
    /\ UNCHANGED <<resolved, version, export_dir, stlpath, launched, report, env>>

\* a selection check that creates the directory before it looks
ExecuteSelect_EnsureFirst ==
    /\ pc = "select"
    /\ fs' = ensure_export_dir(fs, chosen_dir)
    /\ \E mesh \in BOOLEAN :
         IF mesh
         THEN /\ env' = [env EXCEPT !.mesh = "yes"]
              /\ pc' = "path"
              /\ UNCHANGED <<report, result>>
         ELSE /\ env' = [env EXCEPT !.mesh = "no"]
              /\ report' = [level |-> "ERROR",
                            msg |-> <<"Select a mesh object to export.">>]
              /\ result' = "CANCELLED"
              /\ pc' = "done"
    /\ UNCHANGED <<resolved, version, export_dir, op, trace, stlpath, launched>>

\* if not any(o.type == 'MESH' for o in ctx.selected_objects)
ExecuteSelect ==
    /\ pc = "select"
    /\ \E mesh \in BOOLEAN :
         IF mesh
         THEN /\ env' = [env EXCEPT !.mesh = "yes"]
              /\ pc' = "path"
              /\ UNCHANGED <<report, result>>
         ELSE /\ env' = [env EXCEPT !.mesh = "no"]
              /\ report' = [level |-> "ERROR",
                            msg |-> <<"Select a mesh object to export.">>]
              /\ result' = "CANCELLED"
              /\ pc' = "done"
    /\ UNCHANGED <<resolved, version, export_dir, fs, op, trace, stlpath, launched>>

\* stlpath = _make_stl_path(ctx.active_object)
ExecuteMakePath ==
    /\ pc = "path"
    /\ \E doc \in DocPaths, obj \in ObjNames, now \in 0..MaxClock :
         IF ensure_raises(fs, chosen_dir)
         THEN /\ trace' = Append(trace, Event("ensure", chosen_dir, "raised"))
              /\ result' = "RAISED"
              /\ pc' = "done"
              /\ UNCHANGED <<fs, stlpath>>
         ELSE /\ fs' = ensure_export_dir(fs, chosen_dir)
              /\ trace' = Append(trace, Event("ensure", chosen_dir, "ok"))
              /\ stlpath' = make_stl_path(doc, obj, now)
              /\ pc' = "export"
              /\ UNCHANGED result
    /\ UNCHANGED <<resolved, version, export_dir, op, launched, report, env>>

\* an export whose except reports the error and does not return
ExecuteExport_Swallow ==
    /\ pc = "export"
    /\ \/ /\ fs' = write_file(fs, stlpath)
          /\ trace' = Append(trace, Event("export", stlpath.dir, "ok"))
          /\ pc' = "s1"
          /\ UNCHANGED <<report, result>>
       \/ \E e \in ExportErrors, wrote \in BOOLEAN :
            /\ fs' = IF wrote THEN write_file(fs, stlpath) ELSE fs
            /\ trace' = Append(trace, Event("export", e, "raised"))
            /\ report' = [level |-> "ERROR", msg |-> <<"STL export failed: ", e>>]
            /\ result' = "CANCELLED"
            /\ pc' = "s1"
    /\ UNCHANGED <<resolved, version, export_dir, op, stlpath, launched, env>>

\* bpy.ops.wm.stl_export(filepath = stlpath, ...), in its try
ExecuteExport ==
    /\ pc = "export"
    /\ \/ /\ fs' = write_file(fs, stlpath)
          /\ trace' = Append(trace, Event("export", stlpath.dir, "ok"))
          /\ pc' = "s1"
          /\ UNCHANGED <<report, result>>
       \/ \E e \in ExportErrors, wrote \in BOOLEAN :
            /\ fs' = IF wrote THEN write_file(fs, stlpath) ELSE fs
            /\ trace' = Append(trace, Event("export", e, "raised"))
            /\ report' = [level |-> "ERROR", msg |-> <<"STL export failed: ", e>>]
            /\ result' = "CANCELLED"
            /\ pc' = "done"
    /\ UNCHANGED <<resolved, version, export_dir, op, stlpath, launched, env>>

\* strategy 1 without the os.path.isfile test
Strategy1_NoIsfile ==
    /\ pc = "s1"
    /\ \E cp \in CuraPaths :
         /\ env' = [env EXCEPT !.cura_path = cp]
         /\ IF cp # ""
            THEN \E o \in LaunchOutcomes : Attempt("configured", o)
            ELSE NoAttempt
    /\ pc' = "s2"
    /\ UNCHANGED <<resolved, version, export_dir, fs, op, stlpath, report, result>>

\* if prefs.cura_path and os.path.isfile(prefs.cura_path)
Strategy1 ==
    /\ pc = "s1"
    /\ \E cp \in CuraPaths :
         /\ env' = [env EXCEPT !.cura_path = cp]
         /\ IF cp # "" /\ cp \in HostFiles
            THEN \E o \in LaunchOutcomes : Attempt("configured", o)
            ELSE NoAttempt
    /\ pc' = "s2"
    /\ UNCHANGED <<resolved, version, export_dir, fs, op, stlpath, report, result>>

\* strategy 2 without its "not launched" guard
Strategy2_NoGuard ==
    /\ pc = "s2"
    /\ \/ /\ env' = [env EXCEPT !.flatpak_id = "no"]
          /\ NoAttempt
       \/ /\ env' = [env EXCEPT !.flatpak_id = "yes", !.spawn = "no"]
          /\ NoAttempt
       \/ /\ env' = [env EXCEPT !.flatpak_id = "yes", !.spawn = "yes"]
          /\ \E o \in LaunchOutcomes : Attempt("flatpak-spawn", o)
    /\ pc' = "s3"
    /\ UNCHANGED <<resolved, version, export_dir, fs, op, stlpath, report, result>>

\* if not launched and os.environ.get("FLATPAK_ID") and shutil.which("flatpak-spawn")
Strategy2 ==
    /\ pc = "s2"
    /\ \/ /\ launched
          /\ NoAttempt
          /\ UNCHANGED env
       \/ /\ ~launched
          /\ env' = [env EXCEPT !.flatpak_id = "no"]
          /\ NoAttempt
       \/ /\ ~launched
          /\ env' = [env EXCEPT !.flatpak_id = "yes", !.spawn = "no"]
          /\ NoAttempt
       \/ /\ ~launched
          /\ env' = [env EXCEPT !.flatpak_id = "yes", !.spawn = "yes"]
          /\ \E o \in LaunchOutcomes : Attempt("flatpak-spawn", o)
    /\ pc' = "s3"
    /\ UNCHANGED <<resolved, version, export_dir, fs, op, stlpath, report, result>>

\* strategy 3 with two ifs in place of if / elif: flatpak run is tried
\* after a cura launch that failed
Strategy3_FallThrough ==
    /\ pc = "s3"
    /\ \/ /\ launched
          /\ NoAttempt
          /\ UNCHANGED env
       \/ /\ ~launched
          /\ \E p \in Platforms \ {"Linux"} : env' = [env EXCEPT !.platform = p]
          /\ NoAttempt
       \/ /\ ~launched
          /\ env' = [env EXCEPT !.platform = "Linux", !.cura = "yes"]
          /\ Attempt("cura", "running")
       \/ /\ ~launched
          /\ env' = [env EXCEPT !.platform = "Linux", !.cura = "yes",
                                !.flatpak = "yes"]
          /\ \E o1 \in LaunchOutcomes \ {"running"}, o2 \in LaunchOutcomes :
               /\ launched' = launch(o2)
               /\ trace' = trace \o <<Event("launch", "cura", o1),
                                      Event("launch", "flatpak", o2)>>
       \/ /\ ~launched
          /\ env' = [env EXCEPT !.platform = "Linux", !.cura = "no",
                                !.flatpak = "yes"]
          /\ \E o \in LaunchOutcomes : Attempt("flatpak", o)
       \/ /\ ~launched
          /\ env' = [env EXCEPT !.platform = "Linux", !.cura = "no",
                                !.flatpak = "no"]
          /\ NoAttempt
    /\ pc' = "s4"
    /\ UNCHANGED <<resolved, version, export_dir, fs, op, stlpath, report, result>>

\* if not launched and platform.system() == "Linux"
Strategy3 ==
    /\ pc = "s3"
    /\ \/ /\ launched
          /\ NoAttempt
          /\ UNCHANGED env
       \/ /\ ~launched
          /\ \E p \in Platforms \ {"Linux"} : env' = [env EXCEPT !.platform = p]
          /\ NoAttempt
       \/ /\ ~launched
          /\ env' = [env EXCEPT !.platform = "Linux", !.cura = "yes"]
          /\ \E o \in LaunchOutcomes : Attempt("cura", o)
       \/ /\ ~launched
          /\ env' = [env EXCEPT !.platform = "Linux", !.cura = "no",
                                !.flatpak = "yes"]
          /\ \E o \in LaunchOutcomes : Attempt("flatpak", o)
       \/ /\ ~launched
          /\ env' = [env EXCEPT !.platform = "Linux", !.cura = "no",
                                !.flatpak = "no"]
          /\ NoAttempt
    /\ pc' = "s4"
    /\ UNCHANGED <<resolved, version, export_dir, fs, op, stlpath, report, result>>

\* strategy 4 without its try: the error of os.startfile leaves execute
Strategy4_NoTry ==
    /\ pc = "s4"
    /\ IF ~launched /\ env.platform = "Windows"
       THEN \E o \in {"ok", "raised"} :
              /\ launched' = (o = "ok")
              /\ trace' = Append(trace, Event("launch", "startfile", o))
              /\ result' = IF o = "ok" THEN result ELSE "RAISED"
              /\ pc' = IF o = "ok" THEN "s5" ELSE "done"
       ELSE NoAttempt /\ pc' = "s5" /\ UNCHANGED result
    /\ UNCHANGED <<resolved, version, export_dir, fs, op, stlpath, report, env>>

\* if not launched and platform.system() == "Windows": os.startfile(stlpath)
Strategy4 ==
    /\ pc = "s4"
    /\ IF ~launched /\ env.platform = "Windows"
       THEN \E o \in {"ok", "raised"} :
              /\ launched' = (o = "ok")
              /\ trace' = Append(trace, Event("launch", "startfile", o))
       ELSE NoAttempt
    /\ pc' = "s5"
    /\ UNCHANGED <<resolved, version, export_dir, fs, op, stlpath, report, result, env>>

\* strategy 5 without its platform test
Strategy5_AnyPlatform ==
    /\ pc = "s5"
    /\ IF ~launched
       THEN \E o \in LaunchOutcomes : Attempt("open", o)
       ELSE NoAttempt
    /\ pc' = "report"
    /\ UNCHANGED <<resolved, version, export_dir, fs, op, stlpath, report, result, env>>

\* if not launched and platform.system() == "Darwin"
Strategy5 ==
    /\ pc = "s5"
    /\ IF ~launched /\ env.platform = "Darwin"
       THEN \E o \in LaunchOutcomes : Attempt("open", o)
       ELSE NoAttempt
    /\ pc' = "report"
    /\ UNCHANGED <<resolved, version, export_dir, fs, op, stlpath, report, result, env>>

\* a finish that cleans the export directory when nothing was launched
ExecuteFinish_Cleanup ==
    /\ pc = "report"
    /\ IF ~launched
       THEN /\ report' = [level |-> "ERROR",
                          msg |-> <<"Could not launch Cura - see console.">>]
            /\ result' = "CANCELLED"
            /\ fs' = wipe_export_dir(fs, chosen_dir)
       ELSE /\ report' = [level |-> "INFO", msg |-> <<"Cura launched; STL sent.">>]
            /\ result' = "FINISHED"
            /\ fs' = fs
    /\ pc' = "done"
    /\ UNCHANGED <<resolved, version, export_dir, op, trace, stlpath, launched, env>>

\* if not launched: report ERROR, CANCELLED; else report INFO, FINISHED
ExecuteFinish ==
    /\ pc = "report"
    /\ IF ~launched
       THEN /\ report' = [level |-> "ERROR",
                          msg |-> <<"Could not launch Cura - see console.">>]
            /\ result' = "CANCELLED"
       ELSE /\ report' = [level |-> "INFO", msg |-> <<"Cura launched; STL sent.">>]
            /\ result' = "FINISHED"
    /\ pc' = "done"
    /\ UNCHANGED <<resolved, version, export_dir, fs, op, trace, stlpath, launched, env>>

(* ------------------------------------------------------------------ *)
(* The user and the host, between two handlers                        *)
(* ------------------------------------------------------------------ *)
\* the user edits the Export Directory preference (1.1.1 only)
SetExportDir ==
    /\ pc = "idle"
    /\ version = "1.1.1"
    /\ \E d \in ExportDirPrefs : export_dir' = d
    /\ UNCHANGED <<resolved, version, fs, pc, op, trace, stlpath, launched, report,
                   result, env>>

\* another process (the slicer, a viewer) opens a file and holds it, or
\* the file loses its delete permission: it cannot be removed any more
LockEntry ==
    /\ pc = "idle"
    /\ NumLocked < MaxLocked
    /\ \E p \in HostDirs : \E e \in fs[p].entries :
         /\ ~e.locked /\ ~e.isdir
         /\ fs' = [fs EXCEPT ![p].entries =
                       (@ \ {e}) \cup {[e EXCEPT !.locked = TRUE]}]
    /\ UNCHANGED <<resolved, version, export_dir, pc, op, trace, stlpath, launched,
                   report, result, env>>

UnlockEntry ==
    /\ pc = "idle"
    /\ \E p \in HostDirs : \E e \in fs[p].entries :
         /\ e.locked
         /\ fs' = [fs EXCEPT ![p].entries =
                       (@ \ {e}) \cup {[e EXCEPT !.locked = FALSE]}]
    /\ UNCHANGED <<resolved, version, export_dir, pc, op, trace, stlpath, launched,
                   report, result, env>>

\* somebody creates a sub-directory in an export directory
MakeSubdir ==
    /\ pc = "idle"
    /\ \E p \in HostDirs :
         /\ fs[p].kind = "dir"
         /\ SubName \notin Names(fs[p])
         /\ fs' = [fs EXCEPT ![p].entries =
                       @ \cup {[name |-> SubName, isdir |-> TRUE, locked |-> FALSE]}]
    /\ UNCHANGED <<resolved, version, export_dir, pc, op, trace, stlpath, launched,
                   report, result, env>>

\* somebody creates a regular file where an export directory would be
OccupyPath ==
    /\ pc = "idle"
    /\ \E p \in HostDirs :
         /\ fs[p].kind = "absent"
         /\ fs' = [fs EXCEPT ![p] = FileAtPath]
    /\ UNCHANGED <<resolved, version, export_dir, pc, op, trace, stlpath, launched,
                   report, result, env>>

FreePath ==
    /\ pc = "idle"
    /\ \E p \in HostDirs :
         /\ fs[p].kind = "file"
         /\ fs' = [fs EXCEPT ![p] = AbsentDir]
    /\ UNCHANGED <<resolved, version, export_dir, pc, op, trace, stlpath, launched,
                   report, result, env>>

Next ==
    \/ register
    \/ unregister
    \/ ExecuteWipe
    \/ ExecuteSelect
    \/ ExecuteMakePath
    \/ ExecuteExport
    \/ Strategy1
    \/ Strategy2
    \/ Strategy3
    \/ Strategy4
    \/ Strategy5
    \/ ExecuteFinish
    \/ Return
    \/ SetExportDir
    \/ LockEntry
    \/ UnlockEntry
    \/ MakeSubdir
    \/ OccupyPath
    \/ FreePath

Spec == Init /\ [][Next]_vars

(* ------------------------------------------------------------------ *)
(* The launch chain, as the trace of one action records it            *)
(* ------------------------------------------------------------------ *)
IsLaunch(e) == e.op = "launch"
Launches == SelectSeq(trace, IsLaunch)
Attempted(what) == \E i \in 1..Len(Launches) : Launches[i].what = what

StrategyNo(what) ==
    CASE what = "configured" -> 1
      [] what = "flatpak-spawn" -> 2
      [] what \in {"cura", "flatpak"} -> 3
      [] what = "startfile" -> 4
      [] what = "open" -> 5

Succeeded(e) == e.outcome \in {"running", "ok"}
Failed(e) == e.outcome \in {"exited", "raised"}

\* whether a strategy's own condition holds, by what the action read
Applicable(what) ==
    CASE what = "configured" -> env.cura_path \in HostFiles
      [] what = "flatpak-spawn" -> env.flatpak_id = "yes" /\ env.spawn = "yes"
      [] what = "cura" -> env.platform = "Linux" /\ env.cura = "yes"
      [] what = "flatpak" ->
           env.platform = "Linux" /\ env.cura = "no" /\ env.flatpak = "yes"
      [] what = "startfile" -> env.platform = "Windows"
      [] what = "open" -> env.platform = "Darwin"

Strategies == {"configured", "flatpak-spawn", "cura", "flatpak", "startfile", "open"}

ExportOk == \E i \in 1..Len(trace) : trace[i].op = "export" /\ trace[i].outcome = "ok"
LaunchFailureReport ==
    [level |-> "ERROR", msg |-> <<"Could not launch Cura - see console.">>]

(* ------------------------------------------------------------------ *)
(* C1: within one Send-to-Cura action the strategies are attempted in *)
(* the order 1 configured, 2 flatpak-spawn, 3 cura / flatpak run,     *)
(* 4 startfile, 5 open -a; every attempt but the last one has failed, *)
(* so nothing is attempted after a success.                           *)
(* ------------------------------------------------------------------ *)
C1_FixedOrderFirstSuccessWins ==
    /\ \A i, j \in 1..Len(Launches) :
         i < j => StrategyNo(Launches[i].what) < StrategyNo(Launches[j].what)
    /\ \A i \in 1..Len(Launches) : i < Len(Launches) => Failed(Launches[i])
    /\ launched = (Launches # << >> /\ Succeeded(Launches[Len(Launches)]))

C1_Witness ==
    /\ pc = "done"
    /\ result = "FINISHED"
    /\ Len(Launches) = 3
    /\ Launches[1].what = "configured"
    /\ Launches[2].what = "flatpak-spawn"
    /\ Launches[3].what = "open"

(* ------------------------------------------------------------------ *)
(* C2: a spawned process that has exited at the poll, or a spawn that *)
(* raised, makes the strategy fail, and the chain goes on with every  *)
(* later strategy whose condition holds; a process still running      *)
(* makes it succeed, and it is the last attempt of the action.        *)
(* ------------------------------------------------------------------ *)
C2_GraceWaitDecides ==
    \A i \in 1..Len(Launches) :
      LET e == Launches[i]
          last == i = Len(Launches)
      IN e.what # "startfile" =>
           /\ e.outcome = "running" =>
                 /\ last
                 /\ launched
                 /\ pc = "done" => result = "FINISHED"
           /\ e.outcome \in {"exited", "raised"} =>
                 /\ last => ~launched
                 /\ (last /\ pc = "done") =>
                       /\ result = "CANCELLED"
                       /\ report = LaunchFailureReport
                       /\ env.flatpak_id # "unread"
                       /\ env.platform # "unread"
                       /\ \A w \in Strategies :
                            StrategyNo(w) > StrategyNo(e.what) => ~Applicable(w)

C2_Witness ==
    /\ pc = "done"
    /\ Len(Launches) = 3
    /\ Launches[1].outcome = "exited"
    /\ Launches[2].outcome = "raised"
    /\ Launches[3].what = "cura"
    /\ Launches[3].outcome = "running"

(* ------------------------------------------------------------------ *)
(* C3: with a configured path that is blank or is no existing file,   *)
(* strategy 1 is not attempted, and the first attempt of the action   *)
(* is the first later strategy whose condition holds.                 *)
(* ------------------------------------------------------------------ *)
BadCuraPath == env.cura_path # "unread" /\ env.cura_path \notin HostFiles

C3_MissingPathSkipsStrategy1 ==
    BadCuraPath =>
      /\ ~Attempted("configured")
      /\ pc = "done" =>
            /\ env.flatpak_id # "unread"
            /\ \A w \in Strategies \ {"configured"} :
                 (/\ Applicable(w)
                  /\ \A v \in Strategies \ {"configured"} :
                       StrategyNo(v) < StrategyNo(w) => ~Applicable(v))
                 => (Launches # << >> /\ Launches[1].what = w)
            /\ (\A w \in Strategies \ {"configured"} : ~Applicable(w))
                 => (Launches = << >> /\ report = LaunchFailureReport)

C3_Witness ==
    /\ pc = "done"
    /\ env.cura_path = "/missing/cura"
    /\ Launches # << >>
    /\ Launches[1].what = "flatpak"

(* ------------------------------------------------------------------ *)
(* C4: immediately after the exporter returned without raising, the   *)
(* export directory holds exactly one STL file, the one just written, *)
(* whatever the directory held before.                                *)
(* ------------------------------------------------------------------ *)
StlNames(d) == {e.name : e \in StlFiles(d)}

C4_ExactlyOneStlAfterExport ==
    pc = "s1" => StlNames(fs[stlpath.dir]) = {stlpath.name}

(* ------------------------------------------------------------------ *)
(* C5: no step of the launch chain touches the export directory, and  *)
(* an action whose export succeeded and whose attempts all failed (or *)
(* that made none) ends CANCELLED with the launch-failure report,     *)
(* which is not the export-failure report, the STL still on disk.     *)
(* ------------------------------------------------------------------ *)
LaunchPcs == {"s1", "s2", "s3", "s4", "s5", "report"}
StlOnDisk(f) ==
    \E e \in f[stlpath.dir].entries : e.name = stlpath.name /\ IsStl(e)

C5_LaunchFailureKeepsStl ==
    [][/\ pc \in LaunchPcs => (fs' = fs /\ stlpath' = stlpath /\ StlOnDisk(fs))
       /\ (/\ pc = "report"
           /\ ExportOk
           /\ \A i \in 1..Len(Launches) : Failed(Launches[i]))
          => /\ pc' = "done"
             /\ result' = "CANCELLED"
             /\ report' = LaunchFailureReport
             /\ report'.msg[1] # "STL export failed: "
             /\ StlOnDisk(fs')]_vars

C5_Witness ==
    /\ pc = "done"
    /\ ExportOk
    /\ Len(Launches) = 2
    /\ result = "CANCELLED"
    /\ StlOnDisk(fs)

(* ------------------------------------------------------------------ *)
(* C6: when the exporter raises, the action reports "STL export       *)
(* failed: " with the exporter's message, ends CANCELLED, and has     *)
(* attempted no launch and read nothing of the launch environment.    *)
(* ------------------------------------------------------------------ *)
ExportRaised ==
    \E i \in 1..Len(trace) : trace[i].op = "export" /\ trace[i].outcome = "raised"

C6_ExportErrorStopsAction ==
    ExportRaised =>
      LET e == trace[Len(trace)]
      IN /\ e.op = "export" /\ e.outcome = "raised"
         /\ pc = "done"
         /\ result = "CANCELLED"
         /\ report = [level |-> "ERROR", msg |-> <<"STL export failed: ", e.what>>]
         /\ Launches = << >>
         /\ ~launched
         /\ env = [NoEnv EXCEPT !.mesh = "yes"]

C6_Witness ==
    /\ pc = "done"
    /\ ExportRaised
    /\ report.msg = <<"STL export failed: ", "no mesh data">>

(* ------------------------------------------------------------------ *)
(* C7: with no mesh selected the action reports the selection error   *)
(* and ends CANCELLED; after the wipe it changes nothing on disk: no  *)
(* directory is created, no path resolved, no export, no launch.      *)
(* ------------------------------------------------------------------ *)
SelectionReport ==
    [level |-> "ERROR", msg |-> <<"Select a mesh object to export.">>]

C7_NoMeshOnlyWipes ==
    [][(pc = "select" /\ env'.mesh = "no")
        => /\ fs' = fs
           /\ pc' = "done"
           /\ result' = "CANCELLED"
           /\ report' = SelectionReport
           /\ trace' = <<Event("wipe", chosen_dir, "ok")>>
           /\ stlpath' = NoPath
           /\ launched' = FALSE
           /\ env' = [NoEnv EXCEPT !.mesh = "no"]]_vars

C7_Witness ==
    /\ pc = "done"
    /\ env.mesh = "no"
    /\ report = SelectionReport
    /\ fs[chosen_dir].kind = "absent"

(* ------------------------------------------------------------------ *)
(* C8: after wipe_export_dir followed by ensure_export_dir on one     *)
(* path (register does exactly that) the directory exists and is      *)
(* empty, whatever it held before.                                    *)
(* ------------------------------------------------------------------ *)
C8_WipeThenEnsureGivesEmptyDir ==
    (pc = "done" /\ op = "register" /\ result = "returned")
      => fs[chosen_dir] = EmptyDir

(* ------------------------------------------------------------------ *)
(* C9: at the end of register and at the end of unregister the export *)
(* directory is empty or absent.                                      *)
(* ------------------------------------------------------------------ *)
C9_EmptyOrAbsentAtLoadAndUnload ==
    (pc = "done" /\ op \in {"register", "unregister"})
      => fs[chosen_dir].entries = {}

(* ------------------------------------------------------------------ *)
(* C10 as stated: at the end of register, of unregister and of every  *)
(* Send-to-Cura action the directory has been wiped and recreated.    *)
(* ------------------------------------------------------------------ *)
HasEnsure == \E i \in 1..Len(trace) : trace[i].op = "ensure"

WipeRaised == trace # << >> /\ trace[1] = Event("wipe", chosen_dir, "raised")

C11_CleanupFailureNeverSurfaced ==
    /\ result # "RAISED"
    /\ \A i \in 1..Len(trace) :
         trace[i].op \in {"wipe", "ensure"} => trace[i].outcome = "ok"

(* ------------------------------------------------------------------ *)
(* C12: on Linux with neither cura nor flatpak on the search path, an *)
(* action whose configured executable exists but exits within the     *)
(* grace window ends in failure, whatever the rest of the environment *)
(* (FLATPAK_ID, flatpak-spawn) is.                                    *)
(* A value the action never read is one its run does not depend on:   *)
(* the run is the same for every value of it, the claimed one too.    *)
(* ------------------------------------------------------------------ *)
Reads(field, v) == env[field] \in {v, "unread"}

ConfiguredExited ==
    \E i \in 1..Len(trace) : trace[i] = Event("launch", "configured", "exited")

BareLinuxAfterExit ==
    /\ pc = "done" /\ op = "execute"
    /\ ConfiguredExited
    /\ Reads("platform", "Linux") /\ Reads("cura", "no") /\ Reads("flatpak", "no")

C12_ExitedConfiguredFailsInEveryEnv ==
    BareLinuxAfterExit => result = "CANCELLED" /\ report = LaunchFailureReport

\* C12 as the code has it: in that situation the action fails unless the
\* action runs inside a Flatpak sandbox with flatpak-spawn present and the
\* process flatpak-spawn started is still running after the grace wait;
\* then strategy 2 succeeds and the action ends FINISHED.
SpawnRunning ==
    \E i \in 1..Len(trace) : trace[i] = Event("launch", "flatpak-spawn", "running")

C12_ExitedConfiguredFailsUnlessSpawn ==
    BareLinuxAfterExit =>
      /\ SpawnRunning => (Applicable("flatpak-spawn") /\ result = "FINISHED")
      /\ ~SpawnRunning => (result = "CANCELLED" /\ report = LaunchFailureReport)
      /\ \A i \in 1..Len(Launches) :
           Launches[i].what \in {"configured", "flatpak-spawn"}

C12_Witness ==
    /\ BareLinuxAfterExit
    /\ env.platform = "Linux" /\ env.cura = "no" /\ env.flatpak = "no"
    /\ Applicable("flatpak-spawn")
    /\ result = "CANCELLED"

(* ------------------------------------------------------------------ *)
(* C13: in every reachable state the export directory holds at most   *)
(* one STL file, and once an action has exported, no STL other than   *)
(* the one it produced.                                               *)
(* ------------------------------------------------------------------ *)
C13_AtMostOneStlEver ==
    /\ Cardinality(StlFiles(fs[chosen_dir])) =< 1
    /\ (op = "execute" /\ ExportOk) => StlNames(fs[chosen_dir]) \subseteq {stlpath.name}

(* ------------------------------------------------------------------ *)
(* C14: every Send-to-Cura action ends either FINISHED with the       *)
(* success report or CANCELLED with one error report, never without   *)
(* one of the two, and attempts no launch strategy more than once.    *)
(* ------------------------------------------------------------------ *)
SuccessReport == [level |-> "INFO", msg |-> <<"Cura launched; STL sent.">>]

TimesAttempted(what) ==
    Cardinality({i \in 1..Len(Launches) : Launches[i].what = what})

C14_EndsFinishedOrCancelled ==
    (pc = "done" /\ op = "execute") =>
      /\ result \in {"FINISHED", "CANCELLED"}
      /\ result = "FINISHED" => report = SuccessReport
      /\ result = "CANCELLED" => (report # NoReport /\ report.level = "ERROR")
      /\ \A what \in Strategies : TimesAttempted(what) =< 1

(* ------------------------------------------------------------------ *)
(* _make_stl_path on its own: the path as the string it returns       *)
(* ------------------------------------------------------------------ *)
\* datetime.now() readings, in ticks of 1/TicksPerSecond second of the
\* wall clock: the second before, at and after the start of a minute, of an
\* hour and of a day
SecondsPerMinute == 60
SecondsPerHour == 3600
SecondsPerDay == 86400
RollOvers == {SecondsPerMinute, SecondsPerHour, SecondsPerDay}
ClockSeconds == UNION {{b - 1, b, b + 1} : b \in RollOvers}
ClockReadings ==
    {s * TicksPerSecond + k : s \in ClockSeconds, k \in 0..(TicksPerSecond - 1)}

\* object names whose cleaned forms coincide, besides the same name twice
PathObjNames == ObjNames \cup {<<"a", " ">>}

\* a second saved document, with the same file name up to its extensions
PathDocPaths == DocPaths \cup {<<"part", ".blend">>}

\* strftime("%Y%m%d_%H%M%S"): second precision, every field zero-padded;
\* the date counts on from the first day of a month
whole_second(t) == t \div TicksPerSecond
Digit(n) == <<"0", "1", "2", "3", "4", "5", "6", "7", "8", "9">>[n + 1]
TwoDigits(n) == <<Digit(n \div 10), Digit(n % 10)>>
strftime_NoSeconds(s) ==
    <<"2026", "11">> \o TwoDigits(1 + s \div SecondsPerDay) \o <<"_">>
      \o TwoDigits((s \div SecondsPerHour) % 24)
      \o TwoDigits((s \div SecondsPerMinute) % 60)

strftime(s) ==
    <<"2026", "11">> \o TwoDigits(1 + s \div SecondsPerDay) \o <<"_">>
      \o TwoDigits((s \div SecondsPerHour) % 24)
      \o TwoDigits((s \div SecondsPerMinute) % 60)
      \o TwoDigits(s % 60)

\* os.path.join(directory, f"{base}.stl") / f"{safe}_{ts}.stl", as characters
path_string(p) ==
    <<p.dir, "/">> \o p.name.base
      \o (IF p.name.ts < 0 THEN << >> ELSE strftime(p.name.ts))
      \o <<p.name.ext>>

\* one call of _make_stl_path(obj), the document and the clock being what
\* they are at the call
ResolvePath ==
    /\ pc = "idle"
    /\ Len(resolved) < 2
    /\ ~ensure_raises(fs, chosen_dir)
    /\ \E doc \in PathDocPaths, obj \in PathObjNames, t \in ClockReadings :
         resolved' = Append(resolved,
             [doc |-> doc, obj |-> obj, now |-> t, dir |-> chosen_dir,
              path |-> path_string(make_stl_path(doc, obj, whole_second(t)))])
    /\ fs' = ensure_export_dir(fs, chosen_dir)
    /\ UNCHANGED <<version, export_dir, pc, op, trace, stlpath, launched,
                   report, result, env>>

NextPath ==
    \/ ResolvePath
    \/ SetExportDir

SpecPath == Init /\ [][NextPath]_vars

(* ------------------------------------------------------------------ *)
(* C15: for a saved document, two consecutive resolutions of the      *)
(* export path for the same document and the same export directory    *)
(* return the same path, {export_dir}/{document_base}.stl, whatever   *)
(* the object names and the clock readings are.                       *)
(* ------------------------------------------------------------------ *)
Resolutions == 1..Len(resolved)

C15_SavedDocumentSamePath ==
    \A i, j \in Resolutions :
      (/\ resolved[i].doc # << >>
       /\ resolved[j].doc = resolved[i].doc
       /\ resolved[j].dir = resolved[i].dir)
      => /\ resolved[i].path = resolved[j].path
         /\ resolved[i].path =
              <<resolved[i].dir, "/">> \o splitext0(basename(resolved[i].doc))
                \o <<".stl">>

C15_Witness ==
    /\ Len(resolved) = 2
    /\ resolved[1].doc # << >> /\ resolved[2].doc = resolved[1].doc
    /\ resolved[2].dir = resolved[1].dir
    /\ resolved[1].obj # resolved[2].obj
    /\ whole_second(resolved[1].now) # whole_second(resolved[2].now)

(* ------------------------------------------------------------------ *)
(* C16: with no saved document, two resolutions made at clock         *)
(* readings at least one second apart return distinct paths, for      *)
(* every pair of object names, the same name twice included.          *)
(* ------------------------------------------------------------------ *)
Apart(t, u) == IF t >= u THEN t - u ELSE u - t

C16_UnsavedDistinctPaths ==
    \A i, j \in Resolutions :
      (/\ i # j
       /\ resolved[i].doc = << >> /\ resolved[j].doc = << >>
       /\ Apart(resolved[i].now, resolved[j].now) >= TicksPerSecond)
      => resolved[i].path # resolved[j].path

C16_Witness ==
    /\ Len(resolved) = 2
    /\ resolved[1].doc = << >> /\ resolved[2].doc = << >>
    /\ resolved[1].dir = resolved[2].dir
    /\ clean_name(resolved[1].obj) = clean_name(resolved[2].obj)
    /\ Apart(resolved[1].now, resolved[2].now) = TicksPerSecond
    /\ whole_second(resolved[2].now) = SecondsPerMinute

(* ------------------------------------------------------------------ *)
(* C17: on Windows, when no earlier strategy succeeded, os.startfile  *)
(* is attempted, once; the strategy has succeeded exactly when the    *)
(* call did not raise, and when it raised the error is swallowed: the *)
(* strategy counts as failed and the action goes on to its failure    *)
(* report.                                                            *)
(* ------------------------------------------------------------------ *)
\* the platform is read only once strategies 1 and 2 have not launched
OnWindowsPastStrategy4 ==
    /\ op = "execute" /\ pc \in {"s5", "report", "done"}
    /\ env.platform = "Windows"

StartfileOutcomes ==
    {Launches[i].outcome : i \in {k \in 1..Len(Launches) : Launches[k].what = "startfile"}}

C17_StartfileSucceedsIffNoRaise ==
    OnWindowsPastStrategy4 =>
      /\ TimesAttempted("startfile") = 1
      /\ Launches[Len(Launches)].what = "startfile"
      /\ \A i \in 1..(Len(Launches) - 1) : Failed(Launches[i])
      /\ launched <=> StartfileOutcomes = {"ok"}
      /\ ~launched <=> StartfileOutcomes = {"raised"}
      /\ result # "RAISED"
      /\ pc = "done" =>
           /\ StartfileOutcomes = {"ok"} =>
                (result = "FINISHED" /\ report = SuccessReport)
           /\ StartfileOutcomes = {"raised"} =>
                (result = "CANCELLED" /\ report = LaunchFailureReport)

C17_Witness ==
    /\ OnWindowsPastStrategy4
    /\ pc = "done"
    /\ StartfileOutcomes = {"raised"}
    /\ Attempted("configured")
    /\ result = "CANCELLED"

(* ------------------------------------------------------------------ *)
(* C18: on Linux the two launches of strategy 3 exclude each other    *)
(* within one action: with a cura binary on the search path only the  *)
(* bare cura launch is attempted, and flatpak run is not, even when   *)
(* that launch fails; flatpak run is attempted only when no cura      *)
(* binary is found and flatpak is.                                    *)
(* ------------------------------------------------------------------ *)
PastStrategy3 == op = "execute" /\ pc \in {"s4", "s5", "report", "done"}

CuraLaunchFailed ==
    \E i \in 1..Len(Launches) : Launches[i].what = "cura" /\ Failed(Launches[i])

C18_CuraAndFlatpakRunExclusive ==
    PastStrategy3 =>
      /\ ~(Attempted("cura") /\ Attempted("flatpak"))
      /\ TimesAttempted("cura") =< 1 /\ TimesAttempted("flatpak") =< 1
      /\ (env.platform = "Linux" /\ env.cura = "yes")
           => (Attempted("cura") /\ ~Attempted("flatpak"))
      /\ Attempted("cura") => (env.platform = "Linux" /\ env.cura = "yes")
      /\ Attempted("flatpak")
           <=> (env.platform = "Linux" /\ env.cura = "no" /\ env.flatpak = "yes")

C18_Witness ==
    /\ PastStrategy3
    /\ pc = "done"
    /\ CuraLaunchFailed
    /\ ~Attempted("flatpak")
    /\ result = "CANCELLED"

(* ------------------------------------------------------------------ *)
(* C19: at the end of a Send-to-Cura action at most one process the   *)
(* action spawned is still running: the process of every strategy     *)
(* judged failed had exited (or was never started) when it was        *)
(* judged, and the action ends FINISHED through a spawned-process     *)
(* strategy exactly when one spawned process was still running after  *)
(* its grace wait.                                                    *)
(* ------------------------------------------------------------------ *)
\* the launches whose process _launch found running after the grace wait
StillRunning == {i \in 1..Len(Launches) : Launches[i].outcome = "running"}

FinishedBySpawn ==
    /\ result = "FINISHED"
    /\ Launches # << >>
    /\ Launches[Len(Launches)].what # "startfile"

C19_AtMostOneSpawnedProcessLeft ==
    op = "execute" =>
      /\ Cardinality(StillRunning) =< 1
      /\ \A i \in 1..Len(Launches) :
           /\ i < Len(Launches) => Launches[i].outcome \in {"exited", "raised"}
           /\ i \in StillRunning => launched
      /\ ~launched => StillRunning = {}
      /\ pc = "done" => (FinishedBySpawn <=> Cardinality(StillRunning) = 1)

C19_Witness ==
    /\ op = "execute" /\ pc = "done"
    /\ FinishedBySpawn
    /\ Len(Launches) = 2
    /\ Launches[1].outcome = "exited"
    /\ StillRunning = {2}

(* ------------------------------------------------------------------ *)
(* C20: every wipe, recreation and export acts only on the export     *)
(* directory the configuration selects at the moment of the call (the *)
(* override when non-blank, otherwise the default): no step of        *)
(* register, unregister or execute changes any other directory, so a  *)
(* directory that was the export directory before the override was    *)
(* changed keeps its contents.                                        *)
(* ------------------------------------------------------------------ *)
\* a step of register, unregister or execute: the user and the other
\* processes act only between two handlers
HandlerStep == pc # "idle" \/ pc' # "idle"

====
